---------------------------- MODULE Spec2Model ----------------------------
(***************************************************************************)
(* A model of json_pointer.py (IETF RFC 6901 JSON pointers).               *)
(*                                                                         *)
(* A Python str is a sequence of one-character strings, so that split,     *)
(* replace, unquote, int() and str() are computed character by character.  *)
(* A JSON value is a record [t, v]: t = "dict" with v a function from      *)
(* keys to values, t = "list" with v a sequence of values, t = "scalar".   *)
(***************************************************************************)
EXTENDS Integers, Sequences, FiniteSets, TLC

VARIABLES
    pc,       \* "new": no JsonPointer yet; "ready": constructed; "failed": __init__ raised
    pieces,   \* self.__pieces of the pointer
    other,    \* a second JsonPointer, [pc, pieces], used by the comparison
    out       \* what the latest call was given and what it returned or raised

vars == <<pc, pieces, other, out>>

(***************************************************************************)
(* Bounds of the model.                                                    *)
(***************************************************************************)
MaxLen == 4            \* longest pointer string handed to the constructor
MaxDepth == 2          \* move_pointer_forward is not called beyond this depth
MaxExtraAscend == 2    \* move_pointer_backward calls made past the root
MaxPairLen == 1        \* longest pointer string when two pointers are compared

(***************************************************************************)
(* String constants of the class.                                          *)
(***************************************************************************)
SLASH == <<"/">>
TILDE == <<"~">>
EMPTY_STR == <<>>
ESCAPED_SLASH == <<"~", "1">>
ESCAPED_TILDE == <<"~", "0">>
DASH == <<"-">>
ZERO == "0"

(***************************************************************************)
(* Python values that are not JSON: call arguments and return values.      *)
(***************************************************************************)
PyStr(s) == [ty |-> "str", s |-> s, n |-> 0]
PyInt(n) == [ty |-> "int", s |-> <<>>, n |-> n]
PyNone == [ty |-> "NoneType", s |-> <<>>, n |-> 0]

Dict(f) == [t |-> "dict", v |-> f]
List(s) == [t |-> "list", v |-> s]
Scalar(x) == [t |-> "scalar", v |-> x]
NoValue == Scalar("<no value>")

(***************************************************************************)
(* Characters.                                                             *)
(***************************************************************************)
Digits == <<"0", "1", "2", "3", "4", "5", "6", "7", "8", "9">>
HexUpper == <<"A", "B", "C", "D", "E", "F">>
HexLower == <<"a", "b", "c", "d", "e", "f">>
Whitespace == {" ", "\t", "\n", "\r", "\f"}
Printable ==
    <<" ", "!", "\"", "#", "$", "%", "&", "'", "(", ")", "*", "+", ",", "-", ".", "/",
      "0", "1", "2", "3", "4", "5", "6", "7", "8", "9", ":", ";", "<", "=", ">", "?",
      "@", "A", "B", "C", "D", "E", "F", "G", "H", "I", "J", "K", "L", "M", "N", "O",
      "P", "Q", "R", "S", "T", "U", "V", "W", "X", "Y", "Z", "[", "\\", "]", "^", "_",
      "chr(96)", "a", "b", "c", "d", "e", "f", "g", "h", "i", "j", "k", "l", "m", "n", "o",
      "p", "q", "r", "s", "t", "u", "v", "w", "x", "y", "z", "{", "|", "}", "~">>

IndexIn(c, tbl) == CHOOSE i \in 1..Len(tbl) : tbl[i] = c
IsIn(c, tbl) == \E i \in 1..Len(tbl) : tbl[i] = c
IsDigit(c) == IsIn(c, Digits)
DigitVal(c) == IndexIn(c, Digits) - 1
IsHex(c) == IsIn(c, Digits) \/ IsIn(c, HexUpper) \/ IsIn(c, HexLower)
HexVal(c) ==
    IF IsIn(c, Digits) THEN IndexIn(c, Digits) - 1
    ELSE IF IsIn(c, HexUpper) THEN IndexIn(c, HexUpper) + 9
    ELSE IndexIn(c, HexLower) + 9
\* chr(n); a byte outside printable ASCII, and the backquote, is written chr(n)
Chr(n) == IF n \in 32..126 THEN Printable[n - 31] ELSE "chr(" \o ToString(n) \o ")"

(***************************************************************************)
(* str methods and builtins used by the class.                             *)
(***************************************************************************)
\* first position of character c in s, or 0
RECURSIVE FindFrom(_, _, _)
FindFrom(s, c, i) ==
    IF i > Len(s) THEN 0
    ELSE IF s[i] = c THEN i
    ELSE FindFrom(s, c, i + 1)

\* s.split(c) for a one-character separator: always at least one piece
RECURSIVE Split(_, _)
Split(s, c) ==
    LET i == FindFrom(s, c, 1) IN
    IF i = 0 THEN <<s>>
    ELSE <<SubSeq(s, 1, i - 1)>> \o Split(SubSeq(s, i + 1, Len(s)), c)

\* s.replace(old, new): left to right, occurrences do not overlap
RECURSIVE Replace(_, _, _)
Replace(s, old, new) ==
    IF Len(s) < Len(old) THEN s
    ELSE IF SubSeq(s, 1, Len(old)) = old
         THEN new \o Replace(SubSeq(s, Len(old) + 1, Len(s)), old, new)
    ELSE <<s[1]>> \o Replace(Tail(s), old, new)

\* str(n) of an int
RECURSIVE StrNat(_)
StrNat(n) == IF n < 10 THEN <<Digits[n + 1]>> ELSE StrNat(n \div 10) \o <<Digits[(n % 10) + 1]>>
StrInt(n) == IF n < 0 THEN <<"-">> \o StrNat(-n) ELSE StrNat(n)

RECURSIVE Strip(_)
Strip(s) ==
    IF s = <<>> THEN s
    ELSE IF s[1] \in Whitespace THEN Strip(Tail(s))
    ELSE IF s[Len(s)] \in Whitespace THEN Strip(SubSeq(s, 1, Len(s) - 1))
    ELSE s

RECURSIVE DecimalValue(_)
DecimalValue(s) == IF s = <<>> THEN 0 ELSE 10 * DecimalValue(SubSeq(s, 1, Len(s) - 1)) + DigitVal(s[Len(s)])

\* int(s): surrounding whitespace and one sign are accepted; anything else
\* but decimal digits is a ValueError
IntOf(s) ==
    LET body == Strip(s)
        signed == body # <<>> /\ body[1] \in {"+", "-"}
        digits == IF signed THEN Tail(body) ELSE body
    IN  IF digits # <<>> /\ \A i \in 1..Len(digits) : IsDigit(digits[i])
        THEN [ok |-> TRUE,
              val |-> IF signed /\ body[1] = "-" THEN -DecimalValue(digits) ELSE DecimalValue(digits)]
        ELSE [ok |-> FALSE, val |-> 0]

\* one %-separated item of unquote: two hex digits become a character,
\* anything else keeps its '%'
UnquoteItem(item) ==
    IF Len(item) >= 2 /\ IsHex(item[1]) /\ IsHex(item[2])
    THEN <<Chr(16 * HexVal(item[1]) + HexVal(item[2]))>> \o SubSeq(item, 3, Len(item))
    ELSE <<"%">> \o item

RECURSIVE UnquoteItems(_)
UnquoteItems(bits) ==
    IF bits = <<>> THEN <<>> ELSE UnquoteItem(Head(bits)) \o UnquoteItems(Tail(bits))

\* urllib.unquote(s)
Unquote(s) ==
    LET bits == Split(s, "%") IN Head(bits) \o UnquoteItems(Tail(bits))

(***************************************************************************)
(* What a call returns or raises.                                          *)
(***************************************************************************)
Return(v) == [kind |-> "return", val |-> v, cls |-> "", msg |-> "", piece |-> <<>>]
Raise(cls, msg, piece) == [kind |-> "raise", val |-> NoValue, cls |-> cls, msg |-> msg, piece |-> piece]

\* the messages of the exceptions the module raises
CouldNotUseKey == "Could not use key"
IndexOutOfBounds == "Array index out of bounds"
LeadingZero == "Found a leading zero"
NotADict == "obj parameter given not a dict"

(***************************************************************************)
(* class JsonPointer                                                       *)
(***************************************************************************)
\* ValidatePointer without the exemption of the empty string
ValidatePointer_NoRoot(pointer) ==
    IF pointer.ty # "str" THEN "JsonPointerException"
    ELSE IF pointer.s = EMPTY_STR \/ <<pointer.s[1]>> # SLASH THEN "JsonPointerException"
    ELSE "none"

\* __validate_pointer: the exception it raises, or "none"
ValidatePointer(pointer) ==
    IF pointer.ty # "str" THEN "JsonPointerException"
    ELSE IF pointer.s # EMPTY_STR /\ <<pointer.s[1]>> # SLASH THEN "JsonPointerException"
    ELSE "none"

\* __init__: the exception raised, or the pieces of the new pointer
JsonPointerInit(pointer) ==
    LET exc == ValidatePointer(pointer) IN
    IF exc # "none" THEN [exc |-> exc, pieces |-> <<>>]
    ELSE [exc |-> "none", pieces |-> Tail(Split(pointer.s, SLASH[1]))]

\* ToStr as SLASH.join(pieces): no slash before the first piece
RECURSIVE ToStr_Join(_)
ToStr_Join(ps) ==
    IF Len(ps) <= 1 THEN (IF ps = <<>> THEN EMPTY_STR ELSE ps[1])
    ELSE ToStr_Join(SubSeq(ps, 1, Len(ps) - 1)) \o SLASH \o ps[Len(ps)]

\* __str__
RECURSIVE ToStr(_)
ToStr(ps) ==
    IF ps = <<>> THEN EMPTY_STR
    ELSE ToStr(SubSeq(ps, 1, Len(ps) - 1)) \o SLASH \o ps[Len(ps)]

\* __eq__ of two pointers, given their pieces
Eq(ps, qs) == ToStr(ps) = ToStr(qs)

\* __escape_path_string (no method of the class calls it)
EscapePathString(string) == Replace(Replace(string, TILDE, ESCAPED_TILDE), SLASH, ESCAPED_SLASH)

\* RevertEscapedPathString with the two replacements in the other order
RevertEscapedPathString_TildeFirst(string) ==
    Replace(Replace(string, ESCAPED_TILDE, TILDE), ESCAPED_SLASH, SLASH)

\* __revert_escaped_path_string
RevertEscapedPathString(string) == Replace(Replace(string, ESCAPED_SLASH, SLASH), ESCAPED_TILDE, TILDE)

\* obj[key] of Python: the exception it raises, or the element
Subscript(obj, key) ==
    IF obj.t = "dict" THEN
        IF key.ty = "str" /\ key.s \in DOMAIN obj.v
        THEN [exc |-> "none", val |-> obj.v[key.s]]
        ELSE [exc |-> "KeyError", val |-> NoValue]
    ELSE IF obj.t = "list" THEN
        IF key.ty # "int" THEN [exc |-> "TypeError", val |-> NoValue]
        ELSE IF key.n >= 0 /\ key.n < Len(obj.v) THEN [exc |-> "none", val |-> obj.v[key.n + 1]]
        ELSE IF key.n < 0 /\ -key.n <= Len(obj.v) THEN [exc |-> "none", val |-> obj.v[Len(obj.v) + key.n + 1]]
        ELSE [exc |-> "IndexError", val |-> NoValue]
    ELSE [exc |-> "TypeError", val |-> NoValue]

\* DashIndex as the position past the last element
DashIndex_PastEnd(obj) == Len(obj.v)

\* the index the dash token stands for
DashIndex(obj) == Len(obj.v) - 1

\* the leading-zero test on a list token
HasLeadingZero(key) == Len(key) > 1 /\ key[1] = ZERO

\* __access_attribute_from_object: the exception it raises, or the value
AccessAttributeFromObject(key, obj) ==
    IF obj.t = "dict" THEN
        Subscript(obj, PyStr(RevertEscapedPathString(Unquote(key))))
    ELSE IF obj.t = "list" THEN
        IF key = DASH THEN Subscript(obj, PyInt(DashIndex(obj)))
        ELSE IF HasLeadingZero(key) THEN [exc |-> "JsonPointerException", val |-> NoValue]
        ELSE IF ~IntOf(key).ok THEN [exc |-> "ValueError", val |-> NoValue]
        ELSE Subscript(obj, PyInt(IntOf(key).val))
    ELSE Subscript(obj, PyStr(key))

\* TranslateException with a first clause that catches every exception
TranslateException_CatchAll(exc, piece) ==
    IF exc = "IndexError"
    THEN Raise("JsonPointerException", IndexOutOfBounds, piece)
    ELSE Raise("JsonPointerException", CouldNotUseKey, piece)

\* the except clauses of evaluate: what the caller sees for an exception
\* raised while piece is applied
TranslateException(exc, piece) ==
    IF exc \in {"KeyError", "TypeError", "ValueError"}
    THEN Raise("JsonPointerException", CouldNotUseKey, piece)
    ELSE IF exc = "IndexError"
    THEN Raise("JsonPointerException", IndexOutOfBounds, piece)
    ELSE Raise(exc, LeadingZero, piece)

\* the loop of evaluate from piece i on, obj being the current value
RECURSIVE EvaluateFrom(_, _, _)
EvaluateFrom(ps, i, obj) ==
    IF i > Len(ps) THEN Return(obj)
    ELSE LET r == AccessAttributeFromObject(ps[i], obj) IN
         IF r.exc = "none" THEN EvaluateFrom(ps, i + 1, r.val)
         ELSE TranslateException(r.exc, ps[i])

\* evaluate
EvaluateOp(ps, obj) ==
    IF obj.t # "dict" THEN Raise("AssertionError", NotADict, <<>>)
    ELSE EvaluateFrom(ps, 1, obj)

\* MovePointerForward inserting the new piece at the front
MovePointerForward_Front(ps, attribute) ==
    IF attribute.ty \notin {"str", "int"} THEN [exc |-> "AssertionError", pieces |-> ps]
    ELSE [exc |-> "none",
          pieces |-> <<IF attribute.ty = "str" THEN attribute.s ELSE StrInt(attribute.n)>> \o ps]

\* move_pointer_forward: the exception raised, or the pieces afterwards
MovePointerForward(ps, attribute) ==
    IF attribute.ty \notin {"str", "int"} THEN [exc |-> "AssertionError", pieces |-> ps]
    ELSE [exc |-> "none",
          pieces |-> Append(ps, IF attribute.ty = "str" THEN attribute.s ELSE StrInt(attribute.n))]

\* MovePointerBackward without the length test: pop() of an empty list raises
MovePointerBackward_NoGuard(ps) ==
    IF Len(ps) > 0
    THEN [exc |-> "none", ret |-> PyStr(ps[Len(ps)]), pieces |-> SubSeq(ps, 1, Len(ps) - 1)]
    ELSE [exc |-> "IndexError", ret |-> PyNone, pieces |-> ps]

\* move_pointer_backward: what it returns and the pieces afterwards
MovePointerBackward(ps) ==
    IF Len(ps) > 0
    THEN [exc |-> "none", ret |-> PyStr(ps[Len(ps)]), pieces |-> SubSeq(ps, 1, Len(ps) - 1)]
    ELSE [exc |-> "none", ret |-> PyNone, pieces |-> ps]

(***************************************************************************)
(* Inputs.                                                                 *)
(***************************************************************************)
RECURSIVE StringsUpTo(_, _)
StringsUpTo(chars, n) ==
    IF n = 0 THEN {<<>>}
    ELSE LET shorter == StringsUpTo(chars, n - 1) IN
         shorter \cup {Append(s, c) : s \in {t \in shorter : Len(t) = n - 1}, c \in chars}

PointerChars == {"/", "~", "a", "1"}
\* what the constructor is called with: strings, an int and None
PointerInputs == {PyStr(s) : s \in StringsUpTo(PointerChars, MaxLen)} \cup {PyInt(5), PyNone}
PairInputs == {PyStr(s) : s \in StringsUpTo({"/", "a"}, MaxPairLen)}

Tokens ==
    { <<"a">>, <<"b">>, <<"a", "/", "b">>,
      <<"0">>, <<"1">>, <<"0", "1">>, <<"-">>, <<"+", "1">>,
      <<"~", "0", "1">>, <<"~", "1">>, <<"%", "7", "E", "1">>, <<"%", "3", "0">> }
\* what move_pointer_forward is called with: strings, ints and None
Attributes == {PyStr(s) : s \in Tokens} \cup {PyInt(-1), PyInt(12), PyNone}
PairAttributes == {PyStr(<<"a">>), PyStr(<<"b">>), PyStr(<<"a", "/", "b">>), PyStr(<<"~", "1">>), PyInt(0)}

Doc1 ==
    Dict(  (<<"a">> :> List(<<Scalar("x"), Scalar("y")>>))
        @@ (<<"b">> :> List(<<>>))
        @@ (<<"a", "/", "b">> :> Scalar("a/b"))
        @@ (<<"/">> :> Scalar("slash"))
        @@ (<<"~", "1">> :> Scalar("tilde one"))
        @@ (<<>> :> Scalar("empty"))
        @@ (<<"0">> :> Dict(<<"1">> :> Scalar("n")))
        @@ (<<"x">> :> Scalar("leaf")) )
Doc2 ==
    Dict(  (<<"a">> :> Dict((<<"b">> :> Scalar("nested")) @@ (<<"/">> :> List(<<Scalar("z")>>))))
        @@ (<<"a", "/", "b">> :> Scalar("a/b"))
        @@ (<<"0">> :> List(<<List(<<Scalar("p")>>), Dict(<<"a">> :> Scalar("q")), Scalar("r")>>))
        @@ (<<"-", "1">> :> Scalar("minus one")) )
Doc3 == List(<<Scalar("x")>>)
\* what evaluate is called with
Roots == {Doc1, Doc2, Doc3}

(***************************************************************************)
(* The calls on the pointer.                                               *)
(***************************************************************************)
Init ==
    /\ pc = "new"
    /\ pieces = <<>>
    /\ other = [pc |-> "new", pieces |-> <<>>]
    /\ out = [op |-> "none"]

\* JsonPointer(pointer)
Construct(inputs) ==
    /\ pc = "new"
    /\ \E pointer \in inputs :
        LET r == JsonPointerInit(pointer) IN
        /\ pc' = IF r.exc = "none" THEN "ready" ELSE "failed"
        /\ pieces' = r.pieces
        /\ out' = [op |-> "parse", arg |-> pointer, exc |-> r.exc]
    /\ UNCHANGED other

\* pointer.move_pointer_forward(attribute)
Descend(attributes) ==
    /\ pc = "ready"
    /\ Len(pieces) < MaxDepth
    /\ \E attribute \in attributes :
        LET r == MovePointerForward(pieces, attribute) IN
        /\ pieces' = r.pieces
        /\ out' = [op |-> "descend", arg |-> attribute, exc |-> r.exc]
    /\ UNCHANGED <<pc, other>>

\* pointer.move_pointer_backward(); out keeps the pieces the run of
\* successive calls started from and what each call of the run returned
Ascend ==
    /\ pc = "ready"
    /\ out.op = "ascend" => Len(out.rets) < Len(out.base) + MaxExtraAscend
    /\ LET r == MovePointerBackward(pieces) IN
        /\ pieces' = r.pieces
        /\ out' = [op |-> "ascend",
                   base |-> IF out.op = "ascend" THEN out.base ELSE pieces,
                   rets |-> (IF out.op = "ascend" THEN out.rets ELSE <<>>) \o <<r.ret>>,
                   exc |-> IF out.op = "ascend" /\ out.exc # "none" THEN out.exc ELSE r.exc]
    /\ UNCHANGED <<pc, other>>

\* pointer.evaluate(obj)
Evaluate ==
    /\ pc = "ready"
    /\ \E obj \in Roots :
        out' = [op |-> "evaluate", arg |-> obj, res |-> EvaluateOp(pieces, obj)]
    /\ UNCHANGED <<pc, pieces, other>>

Next ==
    \/ Construct(PointerInputs)
    \/ Descend(Attributes)
    \/ Ascend
    \/ Evaluate

Spec == Init /\ [][Next]_vars

(***************************************************************************)
(* Two pointers, compared and evaluated against the same root.             *)
(***************************************************************************)
ConstructOther ==
    /\ other.pc = "new"
    /\ \E pointer \in PairInputs :
        LET r == JsonPointerInit(pointer) IN
        other' = [pc |-> IF r.exc = "none" THEN "ready" ELSE "failed", pieces |-> r.pieces]
    /\ out' = [op |-> "other"]
    /\ UNCHANGED <<pc, pieces>>

DescendOther ==
    /\ other.pc = "ready"
    /\ Len(other.pieces) < MaxDepth
    /\ \E attribute \in PairAttributes :
        other' = [other EXCEPT !.pieces = MovePointerForward(other.pieces, attribute).pieces]
    /\ out' = [op |-> "other"]
    /\ UNCHANGED <<pc, pieces>>

AscendOther ==
    /\ other.pc = "ready"
    /\ other.pieces # <<>>
    /\ other' = [other EXCEPT !.pieces = MovePointerBackward(other.pieces).pieces]
    /\ out' = [op |-> "other"]
    /\ UNCHANGED <<pc, pieces>>

\* pointer == other, and both evaluated against obj
Compare ==
    /\ pc = "ready"
    /\ other.pc = "ready"
    /\ \E obj \in {Doc1, Doc2} :
        out' = [op |-> "compare", arg |-> obj, eq |-> Eq(pieces, other.pieces),
                mine |-> EvaluateOp(pieces, obj), theirs |-> EvaluateOp(other.pieces, obj)]
    /\ UNCHANGED <<pc, pieces, other>>

NextPair ==
    \/ Construct(PairInputs)
    \/ Descend(PairAttributes)
    \/ Ascend
    \/ ConstructOther
    \/ DescendOther
    \/ AscendOther
    \/ Compare

SpecPair == Init /\ [][NextPair]_vars

(***************************************************************************)
(* Properties.                                                             *)
(*                                                                         *)
(* After pointer.evaluate(obj), Before(i) is the evaluation of the first   *)
(* i-1 pieces and After(i) that of the first i pieces: when Before(i)      *)
(* returns, its value is the current value piece i is applied to.          *)
(***************************************************************************)
Before(i) == EvaluateOp(SubSeq(pieces, 1, i - 1), out.arg)
After(i) == EvaluateOp(SubSeq(pieces, 1, i), out.arg)
Current(i) == Before(i).val
Steps == 1..Len(pieces)
AtList(i) ==
    /\ out.op = "evaluate" /\ out.arg.t = "dict"
    /\ Before(i).kind = "return" /\ Current(i).t = "list"
AtDict(i) ==
    /\ out.op = "evaluate" /\ out.arg.t = "dict"
    /\ Before(i).kind = "return" /\ Current(i).t = "dict"
\* piece i fails with msg, and so does the whole evaluation
Fails(i, msg) ==
    /\ After(i).kind = "raise" /\ After(i).cls = "JsonPointerException" /\ After(i).msg = msg
    /\ After(i).piece = pieces[i]
    /\ out.res = After(i)
AllDigits(tok) == tok # <<>> /\ \A j \in 1..Len(tok) : tok[j] \in {"0", "1", "2", "3", "4", "5", "6", "7", "8", "9"}
\* a non-negative decimal integer literal without a leading zero
IsIndexLiteral(tok) == AllDigits(tok) /\ (Len(tok) = 1 \/ tok[1] # "0")
RECURSIVE LiteralValue(_)
LiteralValue(tok) ==
    IF tok = <<>> THEN 0
    ELSE 10 * LiteralValue(SubSeq(tok, 1, Len(tok) - 1))
         + (CHOOSE d \in 0..9 : Digits[d + 1] = tok[Len(tok)])
Contains(tok, c) == \E j \in 1..Len(tok) : tok[j] = c

\* C1: on a list of length L, a piece other than "-" yields an element only
\* if it is a non-negative decimal literal without a leading zero whose
\* value i is at most L-1, and the element is the one at position i; every
\* other piece makes evaluate fail: a piece with no digit at all with the
\* could-not-use-key error, an index literal of value >= L with the
\* out-of-bounds error.
C1_ListIndex ==
    \A i \in Steps :
        AtList(i) /\ pieces[i] # DASH =>
            LET tok == pieces[i]
                l == Current(i).v
            IN  /\ IF IsIndexLiteral(tok) /\ LiteralValue(tok) < Len(l)
                   THEN After(i) = Return(l[LiteralValue(tok) + 1])
                   ELSE After(i).kind = "raise"
                /\ IsIndexLiteral(tok) /\ LiteralValue(tok) >= Len(l) => Fails(i, IndexOutOfBounds)
                /\ (\A j \in 1..Len(tok) : ~IsDigit(tok[j])) => Fails(i, CouldNotUseKey)

\* C2: on a dict, the key looked up for a piece is the piece percent-decoded,
\* then with every ~1 replaced by /, then with every ~0 replaced by ~ (the
\* piece ~01 looks up ~1, not /); evaluate goes on with the value under that
\* key, or fails with the could-not-use-key error when the key is absent.
\* A piece applied to a list is never unescaped: one holding % or ~ fails.
C2_MapKeyUnescaped ==
    \A i \in Steps :
        /\ AtDict(i) =>
            LET key == Replace(Replace(Unquote(pieces[i]), <<"~", "1">>, <<"/">>), <<"~", "0">>, <<"~">>)
                m == Current(i).v
            IN  /\ IF key \in DOMAIN m THEN After(i) = Return(m[key]) ELSE Fails(i, CouldNotUseKey)
                /\ pieces[i] = <<"~", "0", "1">> => key = <<"~", "1">>
        /\ AtList(i) /\ (Contains(pieces[i], "%") \/ Contains(pieces[i], "~")) =>
            After(i).kind = "raise" /\ out.res = After(i)

C2_Witness ==
    \E i \in Steps :
        /\ AtDict(i) /\ pieces[i] = <<"~", "0", "1">> /\ After(i) = Return(Scalar("tilde one"))
        /\ <<"/">> \in DOMAIN Current(i).v

\* "/" and the piece, for each piece in order
RECURSIVE Rendering(_)
Rendering(ts) == IF ts = <<>> THEN <<>> ELSE <<"/">> \o Head(ts) \o Rendering(Tail(ts))

\* C3: from pieces t1..tn, n successive move_pointer_backward calls return
\* tn, ..., t1 in that order; after the k-th call the pieces are t1..t(n-k)
\* and str() is their rendering, "" after the n-th; every further call
\* returns None, raises nothing and leaves the pieces empty.
C3_AscendRun ==
    out.op = "ascend" =>
        LET n == Len(out.base)
            k == Len(out.rets)
            left == IF k < n THEN SubSeq(out.base, 1, n - k) ELSE <<>>
        IN  /\ out.exc = "none"
            /\ \A j \in 1..k : out.rets[j] = IF j <= n THEN PyStr(out.base[n - j + 1]) ELSE PyNone
            /\ pieces = left
            /\ ToStr(pieces) = Rendering(left)
            /\ k >= n => ToStr(pieces) = EMPTY_STR

C3_Witness ==
    /\ out.op = "ascend" /\ Len(out.base) >= 2
    /\ Len(out.rets) = Len(out.base) + MaxExtraAscend
    /\ out.rets[Len(out.rets)] = PyNone /\ pieces = <<>>

\* C4: move_pointer_forward with a str or an int appends exactly one piece,
\* the stringified argument, and leaves the earlier pieces unchanged, so
\* str() afterwards is str() before, then "/", then the stringified argument
\* ("a" then "b" on the root pointer gives "/a/b"); it raises nothing,
\* whatever the piece.
C4_DescendAppends ==
    [][out'.op = "descend" /\ out'.arg.ty \in {"str", "int"} =>
        LET last == pieces'[Len(pieces')]
            arg == out'.arg
        IN  /\ out'.exc = "none"
            /\ Len(pieces') = Len(pieces) + 1
            /\ SubSeq(pieces', 1, Len(pieces)) = pieces
            /\ arg.ty = "str" => last = arg.s
            /\ arg.ty = "int" =>
                /\ IF arg.n < 0 THEN last[1] = "-" /\ IsIndexLiteral(Tail(last)) ELSE IsIndexLiteral(last)
                /\ IntOf(last).val = arg.n
            /\ ToStr(pieces') = ToStr(pieces) \o <<"/">> \o last
            /\ pieces' = <<<<"a">>, <<"b">>>> => ToStr(pieces') = <<"/", "a", "/", "b">>
    ]_vars

C4_Witness ==
    /\ out.op = "descend" /\ out.arg = PyInt(12)
    /\ pieces = <<<<"a", "/", "b">>, <<"1", "2">>>>

\* the pieces of s between its slashes, the first of which opens s
SlashCount(s, i) == Cardinality({j \in 1..i : s[j] = "/"})
SlashAt(s, k) ==
    IF k > SlashCount(s, Len(s)) THEN Len(s) + 1
    ELSE CHOOSE i \in 1..Len(s) : s[i] = "/" /\ SlashCount(s, i) = k
PiecesBetweenSlashes(s) ==
    [k \in 1..SlashCount(s, Len(s)) |-> SubSeq(s, SlashAt(s, k) + 1, SlashAt(s, k + 1) - 1)]

\* C5: the constructor succeeds exactly when its argument is a str that is
\* empty or begins with "/"; for anything else it raises
\* JsonPointerException and there is no pointer. On success the pieces are
\* those of the string split on "/" without the leading empty piece:
\* none for "", one empty piece for "/".
C5_ParseValidates ==
    out.op = "parse" =>
        LET pointer == out.arg
            valid == pointer.ty = "str" /\ (pointer.s = <<>> \/ pointer.s[1] = "/")
        IN  /\ valid <=> pc = "ready"
            /\ ~valid => pc = "failed" /\ out.exc = "JsonPointerException" /\ pieces = <<>>
            /\ valid => out.exc = "none" /\ pieces = PiecesBetweenSlashes(pointer.s)
            /\ pointer = PyStr(<<>>) => pc = "ready" /\ pieces = <<>>
            /\ pointer = PyStr(<<"/">>) => pc = "ready" /\ pieces = <<EMPTY_STR>>

C5_Witness ==
    /\ out.op = "parse" /\ out.arg = PyStr(<<"/", "a", "/", "/">>)
    /\ pc = "ready" /\ pieces = <<<<"a">>, <<>>, <<>>>>

\* every ~ of s opens ~0 or ~1
WellEscaped(s) == \A j \in 1..Len(s) : s[j] = "~" => j < Len(s) /\ s[j + 1] \in {"0", "1"}

\* C6: for every valid pointer string p with no piece that needs escape
\* normalization, str(JsonPointer(p)) = p; str(JsonPointer("")) = "".
C6_RoundTrip ==
    out.op = "parse" /\ out.exc = "none" /\ WellEscaped(out.arg.s) =>
        /\ ToStr(pieces) = out.arg.s
        /\ out.arg.s = <<>> => ToStr(pieces) = <<>>

C6_Witness ==
    /\ out.op = "parse" /\ out.exc = "none" /\ WellEscaped(out.arg.s)
    /\ Len(pieces) = 2 /\ Contains(out.arg.s, "~") /\ ToStr(pieces) = out.arg.s

\* C7: on a list, the piece "-" goes on with the last element when the list
\* is not empty, and fails with the out-of-bounds error when it is empty.
C7_DashLast ==
    \A i \in Steps :
        AtList(i) /\ pieces[i] = DASH =>
            LET l == Current(i).v IN
            IF l # <<>> THEN After(i) = Return(l[Len(l)]) ELSE Fails(i, IndexOutOfBounds)

C7_Witness ==
    \E i \in Steps :
        AtList(i) /\ pieces[i] = DASH /\ Current(i).v = <<>> /\ out.res.msg = IndexOutOfBounds

\* C8: on a list, every piece longer than one character that begins with "0"
\* fails with the leading-zero error, whatever the list, and the caller sees
\* that error, not the could-not-use-key or the out-of-bounds one; the piece
\* "0" is not rejected for a leading zero.
C8_LeadingZero ==
    \A i \in Steps :
        AtList(i) =>
            LET tok == pieces[i]
                l == Current(i).v
            IN  /\ Len(tok) > 1 /\ tok[1] = "0" => Fails(i, LeadingZero)
                /\ tok = <<"0">> =>
                    IF l # <<>> THEN After(i) = Return(l[1]) ELSE Fails(i, IndexOutOfBounds)

C8_Witness ==
    \E i \in Steps :
        /\ AtList(i) /\ pieces[i] = <<"0", "1">> /\ Len(Current(i).v) = 2
        /\ out.res.msg = LeadingZero

\* the string RFC 6901 writes for the keys the pieces stand for
RECURSIVE CanonicalString(_)
CanonicalString(ps) ==
    IF ps = <<>> THEN <<>>
    ELSE CanonicalString(SubSeq(ps, 1, Len(ps) - 1)) \o <<"/">>
         \o EscapePathString(RevertEscapedPathString(ps[Len(ps)]))

\* C9: in every state reached by the constructor and any calls of
\* move_pointer_forward and move_pointer_backward, str() is "" for no pieces
\* and else the concatenation of "/" and each piece, with the literal / and ~
\* of each piece written ~1 and ~0.
C9_CanonicalForm ==
    pc = "ready" => ToStr(pieces) = CanonicalString(pieces)

\* both calls return the same value, or both raise the same error
SameOutcome(a, b) ==
    /\ a.kind = b.kind
    /\ a.kind = "return" => a.val = b.val
    /\ a.kind = "raise" => a.cls = b.cls /\ a.msg = b.msg

\* C10: two pointers that are equal evaluate alike against every dict: both
\* return the same value or both fail with the same error.
C10_EqualEvaluateAlike ==
    out.op = "compare" /\ out.eq => SameOutcome(out.mine, out.theirs)

=============================================================================
